---------------------------- MODULE Spec2Model ----------------------------
(***************************************************************************)
(* State-machine model of TSimpleMCMC (the Metropolis-Hastings driver) and *)
(* of the bookkeeping of its default proposal, TProposeAdaptiveStep.       *)
(*                                                                         *)
(* Doubles are modelled as IEEE values: a finite value, -inf, +inf or NaN. *)
(* Finite log likelihoods are integer multiples of ln 2, so that the log   *)
(* of a uniform draw k/8 with k a power of two is again such a value.      *)
(* Coordinates of points are small integers.                               *)
(*                                                                         *)
(* The covariance estimate, its Cholesky factor and the step width of the  *)
(* proposal only shape the distribution of the proposed point; the point   *)
(* that comes out of the Gaussian / uniform draws is a choice among all    *)
(* points of the right dimension.                                          *)
(***************************************************************************)
EXTENDS Integers, Sequences, FiniteSets, TLC

\* Largest number of Start and Step calls made on the sampler.
MaxCalls == 2

\* ---------------------------------------------------------------------
\* IEEE doubles
\* ---------------------------------------------------------------------

Fin(n) == [k |-> "fin", v |-> n]

NegInf == [k |-> "ninf", v |-> 0]

PosInf == [k |-> "pinf", v |-> 0]

NaN == [k |-> "nan", v |-> 0]

\* a - b on doubles: NaN propagates, inf - inf is NaN.
Sub(a, b) ==
    IF a.k = "nan" \/ b.k = "nan" THEN NaN
    ELSE IF a.k = "fin" /\ b.k = "fin" THEN Fin(a.v - b.v)
    ELSE IF a.k = "fin" THEN (IF b.k = "pinf" THEN NegInf ELSE PosInf)
    ELSE IF b.k = "fin" THEN a
    ELSE IF a.k = b.k THEN NaN
    ELSE a

\* Position of a non-NaN double in the order -inf < finite < +inf.
Rank(a) == IF a.k = "ninf" THEN 0 ELSE IF a.k = "fin" THEN 1 ELSE 2

\* a < b on doubles: false as soon as one side is NaN.
LtOrEqual(a, b) ==
    /\ a.k # "nan"
    /\ b.k # "nan"
    /\ \/ Rank(a) < Rank(b)
       \/ a.k = "fin" /\ b.k = "fin" /\ a.v <= b.v
       \/ Rank(a) = Rank(b) /\ a.k # "fin"

Lt(a, b) ==
    /\ a.k # "nan"
    /\ b.k # "nan"
    /\ \/ Rank(a) < Rank(b)
       \/ a.k = "fin" /\ b.k = "fin" /\ a.v < b.v

\* a != b on doubles: NaN differs from everything, itself included.
Ne(a, b) == a.k = "nan" \/ b.k = "nan" \/ a # b

\* a >= b on doubles (used to state properties only).
Ge(a, b) ==
    /\ a.k # "nan"
    /\ b.k # "nan"
    /\ ~ Lt(a, b)

RECURSIVE Log2(_)
Log2(n) == IF n <= 1 THEN 0 ELSE 1 + Log2(n \div 2)

\* The values gRandom->Uniform() returns, in eighths: 0, 1/8, 1/4, 1/2.
UniformValues == {0, 1, 2, 4}

\* std::log of a uniform draw u/8, in units of ln 2; std::log(0.0) is -inf.
LogClamped(u) == IF u = 0 THEN Fin(0 - 4) ELSE Fin(Log2(u) - Log2(8))

Log(u) == IF u = 0 THEN NegInf ELSE Fin(Log2(u) - Log2(8))

\* The values a user likelihood returns; each evaluation picks one.
LogValues == {NegInf, Fin(0 - 2), Fin(0), NaN}

\* ---------------------------------------------------------------------
\* Vectors
\* ---------------------------------------------------------------------

Coords == {0, 1}

PointsOfDim(d) == [1..d -> Coords]

\* The dimensions of a starting point: none, one (there is no element of
\* index 1) and two (the least with an element of index 1).
Dims == {0, 1, 2}

Points == UNION {PointsOfDim(d) : d \in Dims}

\* std::vector::resize: keeps the leading elements, zero-fills new ones.
Resize(v, n) == [i \in 1..n |-> IF i <= Len(v) THEN v[i] ELSE 0]

\* std::copy(src.begin(), src.end(), dst.begin()) with |src| <= |dst|.
Copy(src, dst) == [i \in 1..Len(dst) |-> IF i <= Len(src) THEN src[i] ELSE dst[i]]

\* ---------------------------------------------------------------------
\* TProposeAdaptiveStep: the bookkeeping of the adaptive proposal
\* ---------------------------------------------------------------------

\* The proposal as its constructor leaves it.
NewProposeStep ==
    [fLastPoint |-> <<>>,
     fLastValue |-> Fin(0),
     fTrials |-> 0,
     fSuccesses |-> 0,
     fAcceptanceWindow |-> 0 - 1,
     fNextUpdate |-> 0 - 1,
     fStateInitialized |-> FALSE]

\* SetDim: refuses when a dimensionality is already there.
SetDim(e, dim) ==
    IF Len(e.fLastPoint) # 0 THEN e
    ELSE [e EXCEPT !.fLastPoint = Resize(@, dim)]

\* ResetProposal: forgets the success and trial counts.
ResetProposal(e) == [e EXCEPT !.fTrials = 0, !.fSuccesses = 0]

\* InitializeState: acts on the first call only.
InitializeState(e, current, value) ==
    IF e.fStateInitialized THEN e
    ELSE LET e1 == [e EXCEPT !.fStateInitialized = TRUE]
             e2 == IF Len(e1.fLastPoint) < 1 THEN SetDim(e1, Len(current)) ELSE e1
             e3 == [e2 EXCEPT !.fLastValue = value,
                              !.fLastPoint = Copy(current, @)]
             e4 == [e3 EXCEPT !.fAcceptanceWindow =
                                  Len(e3.fLastPoint) * Len(e3.fLastPoint) + 1000]
             e5 == [e4 EXCEPT !.fNextUpdate = e4.fAcceptanceWindow]
         IN  ResetProposal(e5)

\* The "did the point move" test of UpdateState.  It compares the element
\* of index 1 (the second one) of both vectors; with fewer than two
\* elements that read is outside the vector and yields whatever the memory
\* holds, which is the input oob.  The read happens only when the
\* likelihood values compare equal.
Moved(e, current, value, oob) ==
    \/ Ne(value, e.fLastValue)
    \/ IF Len(current) >= 2 /\ Len(e.fLastPoint) >= 2
       THEN current[2] # e.fLastPoint[2]
       ELSE oob

\* That test reading both elements whatever the likelihood values.
ReadsOutsideWhateverValue(e, current, value) ==
    LET e1 == InitializeState(e, current, value)
    IN  Len(current) < 2 \/ Len(e1.fLastPoint) < 2

\* Whether that test reads outside one of the two vectors.
ReadsOutside(e, current, value) ==
    LET e1 == InitializeState(e, current, value)
    IN  /\ ~ Ne(value, e1.fLastValue)
        /\ (Len(current) < 2 \/ Len(e1.fLastPoint) < 2)

\* UpdateState: counts the trial, counts a success when the point moved,
\* schedules the next proposal update and remembers the point.  The counter
\* to the next update is decremented on a move only; the update it
\* triggers (UpdateProposal) refreshes the Cholesky factor of the
\* covariance estimate.
UpdateState(e, current, value, oob) ==
    CHOOSE updated \in
        {LET accepted == Moved(e1, current, value, oob)
             succ == IF accepted THEN e1.fSuccesses + 1 ELSE e1.fSuccesses
         IN  [e1 EXCEPT !.fTrials = @ + 1,
                        !.fSuccesses = succ,
                        !.fNextUpdate =
                            IF accepted
                            THEN IF @ - 1 < 1
                                 THEN e1.fAcceptanceWindow + (succ \div 2)
                                 ELSE @ - 1
                            ELSE @,
                        !.fLastValue = value,
                        !.fLastPoint = Copy(current, @)]
         : e1 \in {InitializeState(e, current, value)}} : TRUE

\* ---------------------------------------------------------------------
\* TSimpleMCMC: the sampler
\* ---------------------------------------------------------------------

\* The output tree: whether one was handed to the constructor, whether the
\* "Step" branch was asked for, the number of entries filled and the last
\* entry.
NoEntry == [LogLikelihood |-> Fin(0), Accepted |-> <<>>, Step |-> <<>>]

NewTree(attached, saveStep) ==
    [attached |-> attached, saveStep |-> attached /\ saveStep,
     entries |-> 0, last |-> NoEntry]

\* The sampler as its constructor leaves it.
NewMCMC(tree) ==
    [fTree |-> tree,
     fProposeStep |-> NewProposeStep,
     fLogLikelihoodCount |-> 0,
     fAccepted |-> <<>>,
     fAcceptedLogLikelihood |-> Fin(0),
     fTrialStep |-> <<>>,
     fProposed |-> <<>>,
     fProposedLogLikelihood |-> Fin(0)]

\* TTree::Fill through the branch addresses set in the constructor.
Fill(s) ==
    [s EXCEPT !.fTree.entries = @ + 1,
              !.fTree.last = [LogLikelihood |-> s.fAcceptedLogLikelihood,
                              Accepted |-> s.fAccepted,
                              Step |-> IF s.fTree.saveStep
                                       THEN s.fTrialStep ELSE <<>>]]

\* SaveStep: fills the tree if there is one.
SaveStep(s) == IF s.fTree.attached THEN Fill(s) ELSE s

\* GetLogLikelihoodValue: counts the call; value is what the user
\* likelihood returned for the proposed point.
GetLogLikelihoodValueUncounted(s, value) ==
    [s EXCEPT !.fProposedLogLikelihood = value]

GetLogLikelihoodValue(s, value) ==
    [s EXCEPT !.fLogLikelihoodCount = @ + 1,
              !.fProposedLogLikelihood = value]

\* Start.
StartOpResizeOnly(s, start, save, value) ==
    CHOOSE started \in
        {IF save THEN SaveStep(s3) ELSE s3 :
            s3 \in {[s2 EXCEPT !.fAcceptedLogLikelihood = s2.fProposedLogLikelihood] :
                s2 \in {GetLogLikelihoodValue(s1, value) :
                    s1 \in {[s EXCEPT
                        !.fProposed = Copy(start, Resize(@, Len(start))),
                        !.fAccepted = Resize(@, Len(start)),
                        !.fTrialStep = Resize(@, Len(start))]}}}} : TRUE

StartOp(s, start, save, value) ==
    CHOOSE started \in
        {IF save THEN SaveStep(s3) ELSE s3 :
            s3 \in {[s2 EXCEPT !.fAcceptedLogLikelihood = s2.fProposedLogLikelihood] :
                s2 \in {GetLogLikelihoodValue(s1, value) :
                    s1 \in {[s EXCEPT
                        !.fProposed = Copy(start, Resize(@, Len(start))),
                        !.fAccepted = Copy(start, Resize(@, Len(start))),
                        !.fTrialStep = Resize(@, Len(start))]}}}} : TRUE

\* The check at the head of Step.
StartPointUnchecked(s) == FALSE

StartPointMissing(s) == Len(s.fProposed) = 0 \/ Len(s.fAccepted) = 0

\* The call of the proposal: it learns about the previous step from the
\* accepted point and its likelihood, then fills the proposed point with
\* the outcome of its draws.
Propose(s, draw, oob) ==
    [s EXCEPT !.fProposeStep = UpdateState(@, s.fAccepted,
                                           s.fAcceptedLogLikelihood, oob),
              !.fProposed = draw]

\* The trial step is cached only when the step is saved.
CacheTrialStepIfTree(s, save) ==
    IF save /\ s.fTree.attached
    THEN [s EXCEPT !.fTrialStep =
              [i \in 1..Len(@) |-> IF i <= Len(s.fProposed)
                                   THEN s.fProposed[i] - s.fAccepted[i]
                                   ELSE @[i]]]
    ELSE s

CacheTrialStep(s, save) ==
    IF save
    THEN [s EXCEPT !.fTrialStep =
              [i \in 1..Len(@) |-> IF i <= Len(s.fProposed)
                                   THEN s.fProposed[i] - s.fAccepted[i]
                                   ELSE @[i]]]
    ELSE s

\* delta < 0.0: the proposed point is less likely than the accepted one.
NeedsTrialOrEqual(delta) == Lt(delta, Fin(0)) \/ delta = Fin(0)

NeedsTrial(delta) == Lt(delta, Fin(0))

\* delta < trial: the proposed point is rejected.
RejectedOrEqual(delta, trial) == LtOrEqual(delta, trial)

Rejected(delta, trial) == Lt(delta, trial)

\* The rejected step: the old point is saved again.
RejectStepUnsaved(s, save) == s

RejectStep(s, save) == IF save THEN SaveStep(s) ELSE s

\* The kept step: the proposed point becomes the accepted one.
KeepStepPointOnly(s, save) ==
    LET s1 == [s EXCEPT !.fAccepted = Copy(s.fProposed, @)]
    IN  IF save THEN SaveStep(s1) ELSE s1

\* The kept step with the trial step built after the copy.
KeepStepCachingLate(s, save) ==
    LET s1 == [s EXCEPT !.fAccepted = Copy(s.fProposed, @),
                        !.fAcceptedLogLikelihood = s.fProposedLogLikelihood]
    IN  IF save THEN SaveStep(CacheTrialStep(s1, save)) ELSE s1

KeepStep(s, save) ==
    LET s1 == [s EXCEPT !.fAccepted = Copy(s.fProposed, @),
                        !.fAcceptedLogLikelihood = s.fProposedLogLikelihood]
    IN  IF save THEN SaveStep(s1) ELSE s1

\* Step.  The result holds the sampler after the call, the returned
\* value, whether a uniform number was drawn and whether the call ended
\* in the bare throw (no exception is active: std::terminate).
Decide(s, save, u) ==
    LET delta == Sub(s.fProposedLogLikelihood, s.fAcceptedLogLikelihood)
    IN  IF NeedsTrial(delta) /\ Rejected(delta, Log(u))
        THEN [mcmc |-> RejectStep(s, save), ret |-> FALSE,
              drew |-> TRUE, fatal |-> FALSE]
        ELSE [mcmc |-> KeepStep(s, save), ret |-> TRUE,
              drew |-> NeedsTrial(delta), fatal |-> FALSE]

StepOp(s, save, draw, value, u, oob) ==
    IF StartPointMissing(s) \/ Len(s.fProposed) # Len(s.fAccepted)
    THEN [mcmc |-> s, ret |-> FALSE, drew |-> FALSE, fatal |-> TRUE]
    ELSE CHOOSE result \in
             {Decide(s3, save, u) :
                  s3 \in {GetLogLikelihoodValue(s2, value) :
                      s2 \in {CacheTrialStep(s1, save) :
                          s1 \in {Propose(s, draw, oob)}}}} : TRUE

\* ---------------------------------------------------------------------
\* TProposeAdaptiveStep: the numbers of the adaptive proposal
\* ---------------------------------------------------------------------
\* The trial weights, the windows and the acceptance rate are exact
\* rationals n/d.  The running estimates (central point, covariance) are
\* kept on a grid of Unit steps per 1.0 and rounded down to it; the
\* epsilon of that arithmetic is 1/Unit^2, so its square root is one step
\* of the grid.  The step width is followed up to its magnitude: zero,
\* positive, +inf or NaN.

\* Steps of the grid per 1.0.
Unit == 4

Abs(n) == IF n < 0 THEN 0 - n ELSE n

RECURSIVE Gcd(_, _)
Gcd(a, b) == IF b = 0 THEN a ELSE Gcd(b, a % b)

\* The rational n/d in lowest terms, d > 0.
R(n, d) ==
    LET g == Gcd(Abs(n), Abs(d))
        s == IF d < 0 THEN 0 - 1 ELSE 1
    IN  [n |-> (s * n) \div g, d |-> (s * d) \div g]

RInt(n) == [n |-> n, d |-> 1]

\* Sum, product and quotient; common factors are taken out before the
\* multiplications.
RAdd(a, b) ==
    LET g == Gcd(a.d, b.d)
    IN  R(a.n * (b.d \div g) + b.n * (a.d \div g), a.d * (b.d \div g))

RMul(a, b) ==
    LET g == Gcd(Abs(a.n), b.d)
        h == Gcd(Abs(b.n), a.d)
    IN  R((a.n \div g) * (b.n \div h), (a.d \div h) * (b.d \div g))

RDiv(a, b) == RMul(a, R(b.d, b.n))

RLt(a, b) == a.n * b.d < b.n * a.d

\* std::min(a, b) is b when b < a, std::max(a, b) is b when a < b.
RMin(a, b) == IF RLt(b, a) THEN b ELSE a

RMax(a, b) == IF RLt(a, b) THEN b ELSE a

\* a * b on magnitudes (0, a positive value, +inf, NaN).
Times(a, b) ==
    IF a.k = "nan" \/ b.k = "nan" THEN NaN
    ELSE IF a.k = "fin" /\ b.k = "fin" THEN Fin(a.v * b.v)
    ELSE IF (a.k = "fin" /\ a.v = 0) \/ (b.k = "fin" /\ b.v = 0) THEN NaN
    ELSE PosInf

\* std::pow(x, y) for a rational x and an exponent y > 0, as a magnitude.
Pow(x) ==
    IF x.n < 0 THEN NaN ELSE IF x.n = 0 THEN Fin(0) ELSE Fin(1)

\* std::sqrt(1.0 / d) as a magnitude: 1.0 / 0 is +inf.
SqrtOfInverse(d) == IF d = 0 THEN PosInf ELSE Fin(1)

\* Square matrices are sequences of rows.
Zero(n) == [i \in 1..n |-> [j \in 1..n |-> 0]]

\* The matrix without row 1 and column j.
Minor(m, j) ==
    [r \in 1..(Len(m) - 1) |-> [c \in 1..(Len(m) - 1) |->
        m[r + 1][IF c < j THEN c ELSE c + 1]]]

RECURSIVE Det(_)
Det(m) ==
    IF Len(m) = 0 THEN 1
    ELSE LET Term(j) == (IF j % 2 = 1 THEN 1 ELSE 0 - 1) * m[1][j] * Det(Minor(m, j))
             Sum[j \in 0..Len(m)] == IF j = 0 THEN 0 ELSE Sum[j - 1] + Term(j)
         IN  Sum[Len(m)]

\* The leading n x n block with the entries below the diagonal taken
\* from above it: the decomposition reads the upper triangle only.
Leading(m, n) ==
    [i \in 1..n |-> [j \in 1..n |-> IF i <= j THEN m[i][j] ELSE m[j][i]]]

\* TDecompChol::Decompose: succeeds when each pivot is positive, that is
\* when all leading minors are.
DecomposeAnything(m) == TRUE

Decompose(m) == \A n \in 1..Len(m) : Det(Leading(m, n)) > 0

\* TDecompChol::GetU: the upper triangular factor U of the matrix
\* decomposed, kept as the matrix U^T U it stands for.
GetU(m) == [of |-> Leading(m, Len(m))]

\* U^T U of a factor.
TransposeTimes(u) == u.of

\* ResizeTo on the factor: the factor of the empty matrix grows into the
\* zero matrix; the dimension does not change otherwise.
ResizeFactorTo(u, n) == IF Len(u.of) = n THEN u ELSE [of |-> Zero(n)]

\* ---------------------------------------------------------------------
\* TProposeAdaptiveStep: the adaptive proposal
\* ---------------------------------------------------------------------

\* ProposalType(): a Gaussian proposal without a hint.
ProposalType == [type |-> 0, param1 |-> 0, param2 |-> 0]

\* The values a member the constructor does not set may hold.
Indeterminate == {RInt(0), RInt(20000)}

\* The proposal as its constructor leaves it: the bookkeeping and the
\* estimates.  Three members are not set: the trial weights.
TProposeAdaptiveStep(acceptanceTrials, covarianceTrials, centralPointTrials) ==
    [fLastPoint |-> <<>>,
     fLastValue |-> Fin(0),
     fTrials |-> 0,
     fSuccesses |-> 0,
     fAcceptanceWindow |-> 0 - 1,
     fNextUpdate |-> 0 - 1,
     fStateInitialized |-> FALSE,
     fCovarianceWindow |-> RInt(0 - 1),
     fAcceptance |-> RInt(0),
     fSigma |-> Fin(0),
     fTargetAcceptance |-> R(44, 100),
     fAcceptanceTrials |-> acceptanceTrials,
     fCovarianceTrials |-> covarianceTrials,
     fCentralPointTrials |-> centralPointTrials,
     fCentralPoint |-> <<>>,
     fCurrentCov |-> <<>>,
     fDecomposition |-> [of |-> <<>>],
     fProposalType |-> <<>>]

\* std::vector<ProposalType>::resize.
ResizeTypes(v, n) == [i \in 1..n |-> IF i <= Len(v) THEN v[i] ELSE ProposalType]

\* SetDim: refuses, and returns, when a dimensionality is already there.
SetDimOp(e, dim) ==
    IF Len(e.fLastPoint) # 0 THEN e
    ELSE [e EXCEPT !.fLastPoint = Resize(@, dim),
                   !.fProposalType = ResizeTypes(@, dim)]

\* The range check of SetUniform and SetGaussian; dim counts from 0.
OutOfRange(e, dim) == dim < 0 \/ dim >= Len(e.fProposalType)

\* SetUniform making room for a dim above the range.
SetUniformResizing(e, dim, minimum, maximum) ==
    IF dim < 0 THEN e
    ELSE [e EXCEPT !.fProposalType =
              [ResizeTypes(@, IF dim >= Len(@) THEN dim + 1 ELSE Len(@))
                  EXCEPT ![dim + 1] = [type |-> 1, param1 |-> minimum * Unit,
                                       param2 |-> maximum * Unit]]]

\* SetUniform: refuses, and returns, when dim is out of range.
SetUniformOp(e, dim, minimum, maximum) ==
    IF OutOfRange(e, dim) THEN e
    ELSE [e EXCEPT !.fProposalType[dim + 1] =
                       [type |-> 1, param1 |-> minimum * Unit,
                        param2 |-> maximum * Unit]]

\* SetGaussian keeping sigma itself.
SetGaussianKeepingSigma(e, dim, sigma) ==
    IF OutOfRange(e, dim) THEN e
    ELSE [e EXCEPT !.fProposalType[dim + 1] =
                       [type |-> 0, param1 |-> sigma * Unit,
                        param2 |-> e.fProposalType[dim + 1].param2]]

\* SetGaussian: refuses, and returns, when dim is out of range; keeps
\* the square of sigma.
SetGaussianOp(e, dim, sigma) ==
    IF OutOfRange(e, dim) THEN e
    ELSE [e EXCEPT !.fProposalType[dim + 1] =
                       [type |-> 0, param1 |-> sigma * sigma * Unit,
                        param2 |-> e.fProposalType[dim + 1].param2]]

\* A coordinate of a point on the grid of the estimates.
OnGrid(x) == x * Unit

\* The deweighting at the head of UpdateProposal.
Deweight(trials, window) ==
    RMin(RMax(RInt(1000), RMul(R(1, 10), trials)), RMul(R(1, 10), window))

\* The proposal types the variance floor knows: a Gaussian with a
\* positive hint and a uniform one.  Anything else is reported as illegal.
Illegal(t) == ~ (t.type = 0 /\ t.param1 > 0) /\ t.type # 1

\* The prechain estimate of the variance of a dimension.
ExpectedVariance(t) ==
    IF t.type = 0 /\ t.param1 > 0 THEN t.param1
    ELSE (((t.param2 - t.param1) * (t.param2 - t.param1)) \div Unit) \div 12

\* minimum * x with minimum = sqrt(epsilon), one step of the grid per 1.0.
Minimum(x) == x \div Unit

\* The first dimension with an illegal type, or one past the last.
FirstIllegal(e) ==
    LET d == Len(e.fLastPoint)
    IN  CHOOSE k \in 1..(d + 1) :
            /\ k <= d => Illegal(e.fProposalType[k])
            /\ \A i \in 1..(k - 1) : ~ Illegal(e.fProposalType[i])

\* The check for very small variances, for the dimensions before k.
RaiseVariances(e, k) ==
    [e EXCEPT !.fCurrentCov =
        [i \in 1..Len(@) |-> [j \in 1..Len(@) |->
            IF /\ i = j
               /\ i < k
               /\ @[i][i] < Minimum(ExpectedVariance(e.fProposalType[i]))
            THEN Minimum(ExpectedVariance(e.fProposalType[i]))
            ELSE @[i][j]]]]

\* correlation < maxCorrelation for the entry cij and the variances cii
\* and cjj: cij / sqrt(cii) / sqrt(cjj) < 0.95.  A division by zero
\* gives an infinity of the sign of cij, or NaN, which is not below.
SmallCorrelation(cij, cii, cjj) ==
    IF cii > 0 /\ cjj > 0
    THEN cij <= 0 \/ 400 * cij * cij < 361 * cii * cjj
    ELSE cij < 0

\* 0.95 * 0.95 * sqrt(cii) * sqrt(cjj), rounded down to the grid.
ReducedCorrelation(cii, cjj) ==
    CHOOSE c \in 0..(cii + cjj) :
        /\ (400 * c) * (400 * c) <= 130321 * cii * cjj
        /\ (400 * (c + 1)) * (400 * (c + 1)) > 130321 * cii * cjj

\* The check for very large correlations.
ReduceCorrelations(e) ==
    [e EXCEPT !.fCurrentCov =
        [i \in 1..Len(@) |-> [j \in 1..Len(@) |->
            IF i = j THEN @[i][j]
            ELSE LET lo == IF i < j THEN i ELSE j
                     hi == IF i < j THEN j ELSE i
                 IN  IF SmallCorrelation(@[lo][hi], @[lo][lo], @[hi][hi])
                     THEN @[i][j]
                     ELSE ReducedCorrelation(@[lo][lo], @[hi][hi])]]]

\* The initial estimate taking the hint of a Gaussian dimension as it
\* is, given or not.
SeedCovarianceOfHints(e) ==
    [i \in 1..Len(e.fLastPoint) |-> [j \in 1..Len(e.fLastPoint) |->
        IF i # j THEN 0
        ELSE IF e.fProposalType[i].type = 0
             THEN e.fProposalType[i].param1
             ELSE OnGrid(1)]]

\* The initial estimate of the covariance.
SeedCovariance(e) ==
    [i \in 1..Len(e.fLastPoint) |-> [j \in 1..Len(e.fLastPoint) |->
        IF i # j THEN 0
        ELSE IF e.fProposalType[i].type = 0 /\ e.fProposalType[i].param1 > 0
             THEN e.fProposalType[i].param1
             ELSE OnGrid(1)]]

\* UpdateProposal and ResetProposal call each other.  Their result holds
\* the proposal after the call and whether the call ended in the bare
\* throw (no exception is active: std::terminate).
RECURSIVE UpdateProposalOp(_)
RECURSIVE ResetProposalOp(_)

\* The decomposition found: it is kept and the call returns.
Decomposed(e) ==
    [e |-> [e EXCEPT !.fDecomposition = GetU(e.fCurrentCov)], threw |-> FALSE]

\* The second attempt, after both checks.
SecondAttempt(e) ==
    IF Decompose(e.fCurrentCov) THEN Decomposed(e) ELSE ResetProposalOp(e)

\* The first attempt has failed: the variances are checked up to the
\* first dimension k of an illegal type, where the call throws.
Repair(e, k) ==
    IF k <= Len(e.fLastPoint)
    THEN [e |-> RaiseVariances(e, k), threw |-> TRUE]
    ELSE CHOOSE result \in
             {SecondAttempt(e2) :
                  e2 \in {ReduceCorrelations(e1) :
                      e1 \in {RaiseVariances(e, k)}}} : TRUE

\* The first attempt, after the deweighting.
FirstAttempt(e) ==
    IF Decompose(e.fCurrentCov) THEN Decomposed(e)
    ELSE CHOOSE result \in {Repair(e, k) : k \in {FirstIllegal(e)}} : TRUE

UpdateProposalOp(e) ==
    CHOOSE result \in
        {FirstAttempt(e1) :
             e1 \in {[e EXCEPT
                 !.fCovarianceTrials = Deweight(@, e.fCovarianceWindow),
                 !.fAcceptanceTrials = Deweight(@, RInt(e.fAcceptanceWindow))]}}
        : TRUE

\* The fresh estimates without the guess at the width.
ForgetKeepingSigma(e) ==
    [e EXCEPT
        !.fTrials = 0,
        !.fSuccesses = 0,
        !.fDecomposition = ResizeFactorTo(@, Len(e.fLastPoint)),
        !.fCurrentCov = SeedCovariance(e),
        !.fCovarianceWindow =
            IF RLt(@, RInt(1000)) THEN RInt(10000000) ELSE @,
        !.fAcceptance = e.fTargetAcceptance,
        !.fAcceptanceTrials =
            RMin(RInt(10), RMul(R(1, 2), RInt(e.fAcceptanceWindow))),
        !.fCentralPoint =
            [i \in 1..Len(e.fLastPoint) |-> OnGrid(e.fLastPoint[i])]]

\* The fresh estimates of ResetProposal.
Forget(e) ==
    [e EXCEPT
        !.fTrials = 0,
        !.fSuccesses = 0,
        !.fSigma = IF Lt(@, Times(Fin(1), SqrtOfInverse(Len(e.fLastPoint))))
                   THEN SqrtOfInverse(Len(e.fLastPoint)) ELSE @,
        !.fDecomposition = ResizeFactorTo(@, Len(e.fLastPoint)),
        !.fCurrentCov = SeedCovariance(e),
        !.fCovarianceWindow =
            IF RLt(@, RInt(1000)) THEN RInt(10000000) ELSE @,
        !.fAcceptance = e.fTargetAcceptance,
        !.fAcceptanceTrials =
            RMin(RInt(10), RMul(R(1, 2), RInt(e.fAcceptanceWindow))),
        !.fCentralPoint =
            [i \in 1..Len(e.fLastPoint) |-> OnGrid(e.fLastPoint[i])]]

\* The trials that stand for the first guess at the central point.
FirstGuess(e) ==
    [e EXCEPT !.fCentralPointTrials =
                  RMin(RInt(10), RMul(R(1, 10), e.fCovarianceWindow))]

ResetProposalOp(e) ==
    CHOOSE result \in
        {UpdateProposalOp(e2) :
             e2 \in {FirstGuess(e1) : e1 \in {Forget(e)}}} : TRUE

\* InitializeState with the estimates: acts on the first call only.
InitializeStateOp(e, current, value) ==
    IF e.fStateInitialized THEN [e |-> e, threw |-> FALSE]
    ELSE CHOOSE result \in
             {ResetProposalOp(
                  [e2 EXCEPT
                      !.fLastValue = value,
                      !.fLastPoint = Copy(current, @),
                      !.fAcceptanceWindow = Len(e2.fLastPoint) * Len(e2.fLastPoint) + 1000,
                      !.fNextUpdate = Len(e2.fLastPoint) * Len(e2.fLastPoint) + 1000]) :
                  e2 \in {IF Len(e.fLastPoint) < 1
                          THEN SetDimOp([e EXCEPT !.fStateInitialized = TRUE],
                                        Len(current))
                          ELSE [e EXCEPT !.fStateInitialized = TRUE]}} : TRUE

\* The running average (old * trials + new) / (trials + 1) of a value on
\* the grid, with new given in num / den steps of the grid.
Average(old, trials, num, den) ==
    (old * trials.n * den + num * trials.d) \div ((trials.n + trials.d) * den)

\* The acceptance with the move added after the division.
UpdateAcceptanceAddingLate(e, accepted) ==
    [e EXCEPT
        !.fAcceptance =
            RAdd(RDiv(RMul(@, e.fAcceptanceTrials),
                      RAdd(e.fAcceptanceTrials, RInt(1))),
                 IF accepted THEN RInt(1) ELSE RInt(0)),
        !.fAcceptanceTrials =
            RMin(RInt(e.fAcceptanceWindow), RAdd(@, RInt(1)))]

\* The acceptance over the last trials.
UpdateAcceptance(e, accepted) ==
    [e EXCEPT
        !.fAcceptance =
            RDiv(RAdd(RMul(@, e.fAcceptanceTrials),
                      IF accepted THEN RInt(1) ELSE RInt(0)),
                 RAdd(e.fAcceptanceTrials, RInt(1))),
        !.fAcceptanceTrials =
            RMin(RInt(e.fAcceptanceWindow), RAdd(@, RInt(1)))]

\* The scale of the proposal step; the exponent is positive.
UpdateSigma(e) ==
    [e EXCEPT !.fSigma = Times(@, Pow(RDiv(e.fAcceptance, e.fTargetAcceptance)))]

\* The estimate of the central value.
UpdateCentralPoint(e, current) ==
    [e EXCEPT
        !.fCentralPoint =
            [i \in 1..Len(@) |->
                IF i <= Len(current)
                THEN Average(@[i], e.fCentralPointTrials, OnGrid(current[i]), 1)
                ELSE @[i]],
        !.fCentralPointTrials =
            RMin(e.fCovarianceWindow, RAdd(@, RInt(1)))]

\* The estimate of the covariance, around the central value it is given.
\* The entry below the diagonal is updated and copied above it.
UpdateCovariance(e, current, center) ==
    [e EXCEPT
        !.fCurrentCov =
            [i \in 1..Len(@) |-> [j \in 1..Len(@) |->
                IF i <= Len(current) /\ j <= Len(current)
                THEN LET lo == IF i < j THEN i ELSE j
                         hi == IF i < j THEN j ELSE i
                     IN  Average(@[hi][lo], e.fCovarianceTrials,
                                 (OnGrid(current[hi]) - center[hi])
                                     * (OnGrid(current[lo]) - center[lo]),
                                 Unit)
                ELSE @[i][j]]],
        !.fCovarianceTrials =
            RMin(e.fCovarianceWindow, RAdd(@, RInt(1)))]

\* The periodic update with the counter going down on every step.
PeriodicUpdateCountingEveryStep(e, accepted) ==
    IF accepted /\ e.fNextUpdate - 1 < 1
    THEN UpdateProposalOp(
             [e EXCEPT !.fNextUpdate =
                           e.fAcceptanceWindow + (e.fSuccesses \div 2)])
    ELSE [e |-> [e EXCEPT !.fNextUpdate = @ - 1], threw |-> FALSE]

\* The periodic update with the counter left where the move brought it.
PeriodicUpdateWithoutReset(e, accepted) ==
    IF accepted /\ e.fNextUpdate - 1 < 1
    THEN UpdateProposalOp([e EXCEPT !.fNextUpdate = @ - 1])
    ELSE [e |-> IF accepted THEN [e EXCEPT !.fNextUpdate = @ - 1] ELSE e,
          threw |-> FALSE]

\* The periodic update: the counter goes down on a move only.
PeriodicUpdate(e, accepted) ==
    IF accepted /\ e.fNextUpdate - 1 < 1
    THEN UpdateProposalOp(
             [e EXCEPT !.fNextUpdate =
                           e.fAcceptanceWindow + (e.fSuccesses \div 2)])
    ELSE [e |-> IF accepted THEN [e EXCEPT !.fNextUpdate = @ - 1] ELSE e,
          threw |-> FALSE]

\* A move counted twice.
CountMovesTwice(e, accepted) ==
    [e EXCEPT !.fTrials = @ + 1,
              !.fSuccesses = IF accepted THEN @ + 2 ELSE @]

\* The trial and, on a move, the success are counted.
Count(e, accepted) ==
    [e EXCEPT !.fTrials = @ + 1,
              !.fSuccesses = IF accepted THEN @ + 1 ELSE @]

\* The last value and point are saved, unless the call has thrown.
SaveLast(result, current, value) ==
    IF result.threw THEN result
    ELSE [result EXCEPT !.e.fLastValue = value,
                        !.e.fLastPoint = Copy(current, @)]

\* UpdateState with the covariance taken around the central value as it
\* was before the step.
LearnAroundOldCenter(e, current, value, accepted) ==
    CHOOSE result \in
        {SaveLast(upd, current, value) :
            upd \in {PeriodicUpdate(e5, accepted) :
                e5 \in {UpdateCovariance(e4, current, e.fCentralPoint) :
                    e4 \in {UpdateCentralPoint(e3, current) :
                        e3 \in {UpdateSigma(e2) :
                            e2 \in {UpdateAcceptance(e1, accepted) :
                                e1 \in {Count(e, accepted)}}}}}}} : TRUE

\* UpdateState after InitializeState, accepted telling whether the point
\* has moved.
Learn(e, current, value, accepted) ==
    CHOOSE result \in
        {SaveLast(upd, current, value) :
            upd \in {PeriodicUpdate(e5, accepted) :
                e5 \in {UpdateCovariance(e4, current, e4.fCentralPoint) :
                    e4 \in {UpdateCentralPoint(e3, current) :
                        e3 \in {UpdateSigma(e2) :
                            e2 \in {UpdateAcceptance(e1, accepted) :
                                e1 \in {Count(e, accepted)}}}}}}} : TRUE

\* UpdateState with the estimates.
UpdateStateOp(e, current, value, oob) ==
    CHOOSE result \in
        {IF init.threw THEN init
         ELSE CHOOSE learnt \in
                  {Learn(init.e, current, value, accepted) :
                       accepted \in {Moved(init.e, current, value, oob)}} : TRUE :
             init \in {InitializeStateOp(e, current, value)}} : TRUE

\* The proposed point is kept as the expression the loop builds: each
\* element is a base (the element of the current point or a numbered
\* uniform draw with its bounds) plus a set of steps, the step of draw r
\* and row i standing for fSigma * r * fDecomposition(i, j).
FromCurrent(current) ==
    [j \in 1..Len(current) |->
        [base |-> [from |-> "current", value |-> current[j]], steps |-> {}]]

\* The loop over the dimensions from i on; gaus and uniform count the
\* draws made so far.
RECURSIVE MakeProposalOverAll(_, _, _, _, _)
MakeProposalOverAll(e, proposal, i, gaus, uniform) ==
    IF i > Len(proposal)
    THEN [proposal |-> proposal, gaus |-> gaus, uniform |-> uniform]
    ELSE IF e.fProposalType[i].type = 1
    THEN MakeProposalOverAll(e,
             [proposal EXCEPT ![i] =
                 [base |-> [from |-> "uniform", draw |-> uniform + 1,
                            minimum |-> e.fProposalType[i].param1,
                            maximum |-> e.fProposalType[i].param2],
                  steps |-> {}]],
             i + 1, gaus, uniform + 1)
    ELSE MakeProposalOverAll(e,
             [j \in 1..Len(proposal) |->
                 [proposal[j] EXCEPT !.steps =
                     @ \cup {[draw |-> gaus + 1, row |-> i]}]],
             i + 1, gaus + 1, uniform)

RECURSIVE MakeProposalSharedDraw(_, _, _, _, _)
MakeProposalSharedDraw(e, proposal, i, gaus, uniform) ==
    IF i > Len(proposal)
    THEN [proposal |-> proposal, gaus |-> gaus, uniform |-> uniform]
    ELSE IF e.fProposalType[i].type = 1
    THEN MakeProposalSharedDraw(e,
             [proposal EXCEPT ![i] =
                 [base |-> [from |-> "uniform", draw |-> uniform + 1,
                            minimum |-> e.fProposalType[i].param1,
                            maximum |-> e.fProposalType[i].param2],
                  steps |-> {}]],
             i + 1, gaus, uniform + 1)
    ELSE MakeProposalSharedDraw(e,
             [j \in 1..Len(proposal) |->
                 IF e.fProposalType[j].type = 1 THEN proposal[j]
                 ELSE [proposal[j] EXCEPT !.steps =
                          @ \cup {[draw |-> 1, row |-> i]}]],
             i + 1, 1, uniform)

RECURSIVE MakeProposal(_, _, _, _, _)
MakeProposal(e, proposal, i, gaus, uniform) ==
    IF i > Len(proposal)
    THEN [proposal |-> proposal, gaus |-> gaus, uniform |-> uniform]
    ELSE IF e.fProposalType[i].type = 1
    THEN MakeProposal(e,
             [proposal EXCEPT ![i] =
                 [base |-> [from |-> "uniform", draw |-> uniform + 1,
                            minimum |-> e.fProposalType[i].param1,
                            maximum |-> e.fProposalType[i].param2],
                  steps |-> {}]],
             i + 1, gaus, uniform + 1)
    ELSE MakeProposal(e,
             [j \in 1..Len(proposal) |->
                 IF e.fProposalType[j].type = 1 THEN proposal[j]
                 ELSE [proposal[j] EXCEPT !.steps =
                          @ \cup {[draw |-> gaus + 1, row |-> i]}]],
             i + 1, gaus + 1, uniform)

\* operator(): called with vectors of the same size.
ProposeOp(e, current, value, oob) ==
    CHOOSE result \in
        {IF upd.threw
         THEN [e |-> upd.e, threw |-> TRUE, proposal |-> <<>>,
               gaus |-> 0, uniform |-> 0]
         ELSE CHOOSE filled \in
                  {[e |-> upd.e, threw |-> FALSE, proposal |-> made.proposal,
                    gaus |-> made.gaus, uniform |-> made.uniform] :
                       made \in {MakeProposal(upd.e, FromCurrent(current), 1, 0, 0)}}
                  : TRUE :
             upd \in {UpdateStateOp(e, current, value, oob)}} : TRUE

\* ---------------------------------------------------------------------
\* State
\* ---------------------------------------------------------------------

VARIABLES
    mcmc,      \* the sampler
    twin,      \* a sampler built without a tree, given the same calls
    gRandom,   \* the random source: uniform numbers drawn, the last one
    call,      \* the last call: its arguments, the inputs it consumed, its result
    calls,     \* the number of Start and of Step calls made
    pc,        \* "running", or "terminated" after the bare throw
    engine,    \* a proposal used on its own
    last       \* the last call made on that proposal and what it gave

vars == <<mcmc, twin, gRandom, call, calls, pc, engine, last>>

\* No call has been made on the proposal used on its own.
NoEngineCall ==
    [op |-> "none", dim |-> 0, current |-> <<>>, value |-> Fin(0),
     proposal |-> <<>>, gaus |-> 0, uniform |-> 0, made |-> 0,
     budget |-> 0, hints |-> <<>>, read |-> FALSE]

\* That proposal while the sampler is the one used.
NewEngine == TProposeAdaptiveStep(RInt(0), RInt(0), RInt(0))

NoCall ==
    [op |-> "none", save |-> FALSE, point |-> <<>>, value |-> Fin(0),
     ret |-> FALSE, twinRet |-> FALSE]

Init ==
    /\ \E attached \in BOOLEAN :
           mcmc = NewMCMC(NewTree(attached, TRUE))
    /\ twin = NewMCMC(NewTree(FALSE, FALSE))
    /\ gRandom = [uniform |-> 0, last |-> 0]
    /\ call = NoCall
    /\ calls = [start |-> 0, step |-> 0]
    /\ pc = "running"
    /\ engine = NewEngine
    /\ last = NoEngineCall

\* The dimensionality is fixed by the first point the proposal sees: a
\* later starting point is not longer than that one.
StartAllowed(e, start) ==
    e.fStateInitialized => Len(start) <= Len(e.fLastPoint)

\* mcmc.Start(start, save), the likelihood returning value.
Start(start, save, value) ==
    /\ pc = "running"
    /\ calls.start + calls.step < MaxCalls
    /\ StartAllowed(mcmc.fProposeStep, start)
    /\ mcmc' = StartOp(mcmc, start, save, value)
    /\ twin' = StartOp(twin, start, save, value)
    /\ call' = [op |-> "Start", save |-> save, point |-> start,
                value |-> value, ret |-> FALSE, twinRet |-> FALSE]
    /\ calls' = [calls EXCEPT !.start = @ + 1]
    /\ UNCHANGED <<gRandom, pc, engine, last>>

\* mcmc.Step(save): the proposal draws the point draw, the likelihood
\* returns value for it, the random source would return u/8, and a read
\* outside the accepted point would see a difference iff oob.  An input
\* the call does not consume is listed once, under its first value.
Step(save, draw, value, u, oob) ==
    /\ pc = "running"
    /\ calls.start + calls.step < MaxCalls
    /\ \E r \in {StepOp(mcmc, save, draw, value, u, oob)},
          t \in {StepOp(twin, save, draw, value, u, oob)} :
           /\ r.drew \/ t.drew \/ u = 0
           /\ \/ oob = FALSE
              \/ ~ r.fatal /\ ReadsOutside(mcmc.fProposeStep, mcmc.fAccepted,
                                           mcmc.fAcceptedLogLikelihood)
              \/ ~ t.fatal /\ ReadsOutside(twin.fProposeStep, twin.fAccepted,
                                           twin.fAcceptedLogLikelihood)
           /\ mcmc' = r.mcmc
           /\ twin' = t.mcmc
           /\ gRandom' = IF r.drew
                         THEN [uniform |-> gRandom.uniform + 1, last |-> u]
                         ELSE gRandom
           /\ call' = IF r.fatal
                      THEN [NoCall EXCEPT !.op = "Step", !.save = save]
                      ELSE [op |-> "Step", save |-> save, point |-> draw,
                            value |-> value, ret |-> r.ret, twinRet |-> t.ret]
           /\ pc' = IF r.fatal THEN "terminated" ELSE "running"
    /\ calls' = [calls EXCEPT !.step = @ + 1]
    /\ UNCHANGED <<engine, last>>

Next ==
    \/ \E start \in Points, save \in BOOLEAN, value \in LogValues :
           Start(start, save, value)
    \/ \E save \in BOOLEAN, draw \in PointsOfDim(Len(mcmc.fAccepted)),
          value \in LogValues, u \in UniformValues, oob \in BOOLEAN :
           Step(save, draw, value, u, oob)

Spec == Init /\ [][Next]_vars

\* ---------------------------------------------------------------------
\* The proposal used on its own
\* ---------------------------------------------------------------------

\* Largest number of calls made on the proposal.
MaxEngineCalls == 3

\* Largest number of calls made on a proposal taken some way into a run.
MaxRunningCalls == 1

\* The arguments of the setters: a dimension (one below and one above
\* the range included), a width hint, the bounds of a uniform proposal.
DimArgs == {0 - 1, 0, 1, 2}

SigmaArgs == {0, 2}

UniformArgs == {<<0 - 3, 3>>}

\* The log likelihoods handed to the proposal.
EngineValues == {Fin(0 - 2), Fin(0)}

\* The trace and the loops of a call run over the dimensions of the last
\* point: the covariance has that size once ResetProposal has run.
Sized(e) == Len(e.fCurrentCov) = Len(e.fLastPoint)

\* The current point handed to the proposal is not longer than the
\* dimensionality the proposal has.
ProposeAllowed(e, current) ==
    (e.fStateInitialized \/ Len(e.fLastPoint) >= 1)
        => Len(current) <= Len(e.fLastPoint)

\* The record of a call.  It carries along the width hint each dimension
\* was last given by a setter call within the range (0 for none).
Called(op, dim, current, value) ==
    [NoEngineCall EXCEPT !.op = op, !.dim = dim, !.current = current,
                         !.value = value, !.made = last.made + 1,
                         !.budget = last.budget, !.hints = last.hints]

Hinted(hints, e, dim, sigma) ==
    [i \in 1..Len(e.fLastPoint) |->
        IF i = dim + 1 THEN sigma
        ELSE IF i <= Len(hints) THEN hints[i] ELSE 0]

SamplerUnused ==
    /\ mcmc = NewMCMC(NewTree(FALSE, FALSE))
    /\ twin = NewMCMC(NewTree(FALSE, FALSE))
    /\ gRandom = [uniform |-> 0, last |-> 0]
    /\ call = NoCall
    /\ calls = [start |-> 0, step |-> 0]

\* A proposal as constructed.
EngineInit ==
    /\ SamplerUnused
    /\ pc = "running"
    /\ \E a \in Indeterminate, c \in Indeterminate, p \in Indeterminate :
           engine = TProposeAdaptiveStep(a, c, p)
    /\ last = [NoEngineCall EXCEPT !.budget = MaxEngineCalls]

\* The ways to set up a dimension before the run: left alone, given a
\* width hint, made uniform.
Setups == {"default", "gaussian", "uniform"}

SetupSigma == 2

SetupBounds == <<0 - 3, 3>>

RECURSIVE SetUp(_, _, _)
SetUp(e, setups, i) ==
    IF i > Len(setups) THEN e
    ELSE SetUp(IF setups[i] = "gaussian" THEN SetGaussianOp(e, i - 1, SetupSigma)
               ELSE IF setups[i] = "uniform"
                    THEN SetUniformOp(e, i - 1, SetupBounds[1], SetupBounds[2])
                    ELSE e,
               setups, i + 1)

\* The proposal set up for a run and initialized at the origin.
Started(setups) ==
    InitializeStateOp(
        SetUp(SetDimOp(TProposeAdaptiveStep(RInt(0), RInt(0), RInt(0)),
                       Len(setups)),
              setups, 1),
        [i \in 1..Len(setups) |-> 0], Fin(0)).e

\* Covariance estimates some way into a run: the variances have stayed
\* or have vanished, the dimensions are uncorrelated or fully correlated
\* either way.
Estimates(e) ==
    {m \in [1..Len(e.fLastPoint) -> [1..Len(e.fLastPoint) -> {0 - Unit, 0, Unit}]] :
        \A i, j \in 1..Len(e.fLastPoint) :
            /\ m[i][j] = m[j][i]
            /\ m[i][i] >= 0
            /\ m[i][j] * m[i][j] <= m[i][i] * m[j][j]}

\* The setups of the runs looked at.
RunSetups ==
    [1..1 -> Setups]
        \cup {<<"default", "default">>, <<"gaussian", "gaussian">>,
              <<"gaussian", "uniform">>, <<"uniform", "uniform">>}

\* Central values some way into a run: the last point, or a point 1.0
\* above it in every coordinate.
Centers(e) ==
    {[i \in 1..Len(e.fLastPoint) |-> OnGrid(e.fLastPoint[i] + above)] :
         above \in {0, 1}}

\* A proposal some way into a run, one or two moves before its next
\* periodic update.
RunningInit ==
    /\ SamplerUnused
    /\ pc = "running"
    /\ \E setups \in RunSetups :
         \E e \in {Started(setups)} :
           \E cov \in Estimates(e), center \in Centers(e), next \in {1, 2} :
               engine = [e EXCEPT !.fCurrentCov = cov,
                                  !.fCentralPoint = center,
                                  !.fNextUpdate = next,
                                  !.fTrials = 5,
                                  !.fSuccesses = 2]
    /\ last = [NoEngineCall EXCEPT !.budget = MaxRunningCalls,
                                   !.hints = <<>>]

EngineCallable == pc = "running" /\ last.made < last.budget

SetDimCall(dim) ==
    /\ EngineCallable
    /\ engine' = SetDimOp(engine, dim)
    /\ last' = Called("SetDim", dim, <<>>, Fin(0))
    /\ UNCHANGED <<mcmc, twin, gRandom, call, calls, pc>>

SetUniformCall(dim, minimum, maximum) ==
    /\ EngineCallable
    /\ engine' = SetUniformOp(engine, dim, minimum, maximum)
    /\ last' = [Called("SetUniform", dim, <<>>, Fin(0)) EXCEPT
                    !.hints = IF OutOfRange(engine, dim) THEN @
                              ELSE Hinted(@, engine, dim, 0)]
    /\ UNCHANGED <<mcmc, twin, gRandom, call, calls, pc>>

SetGaussianCall(dim, sigma) ==
    /\ EngineCallable
    /\ engine' = SetGaussianOp(engine, dim, sigma)
    /\ last' = [Called("SetGaussian", dim, <<>>, Fin(0)) EXCEPT
                    !.hints = IF OutOfRange(engine, dim) THEN @
                              ELSE Hinted(@, engine, dim, sigma)]
    /\ UNCHANGED <<mcmc, twin, gRandom, call, calls, pc>>

UpdateProposalCall ==
    /\ EngineCallable
    /\ Sized(engine)
    /\ \E r \in {UpdateProposalOp(engine)} :
           /\ engine' = r.e
           /\ pc' = IF r.threw THEN "terminated" ELSE "running"
    /\ last' = Called("UpdateProposal", 0, <<>>, Fin(0))
    /\ UNCHANGED <<mcmc, twin, gRandom, call, calls>>

ResetProposalCall ==
    /\ EngineCallable
    /\ \E r \in {ResetProposalOp(engine)} :
           /\ engine' = r.e
           /\ pc' = IF r.threw THEN "terminated" ELSE "running"
    /\ last' = Called("ResetProposal", 0, <<>>, Fin(0))
    /\ UNCHANGED <<mcmc, twin, gRandom, call, calls>>

\* proposal(current, value) with a proposal vector of the size of
\* current; a read outside the vectors sees a difference iff oob.
ProposeCall(current, value, oob) ==
    /\ EngineCallable
    /\ ProposeAllowed(engine, current)
    /\ oob = FALSE \/ ReadsOutside(engine, current, value)
    /\ \E r \in {ProposeOp(engine, current, value, oob)} :
           /\ engine' = r.e
           /\ pc' = IF r.threw THEN "terminated" ELSE "running"
           /\ last' = [Called("Propose", 0, current, value) EXCEPT
                          !.proposal = r.proposal, !.gaus = r.gaus,
                          !.uniform = r.uniform,
                          !.read = ReadsOutside(engine, current, value)]
    /\ UNCHANGED <<mcmc, twin, gRandom, call, calls>>

EngineNext ==
    \/ \E dim \in Dims : SetDimCall(dim)
    \/ \E dim \in DimArgs, bounds \in UniformArgs :
           SetUniformCall(dim, bounds[1], bounds[2])
    \/ \E dim \in DimArgs, sigma \in SigmaArgs : SetGaussianCall(dim, sigma)
    \/ UpdateProposalCall
    \/ ResetProposalCall
    \/ \E current \in Points, value \in EngineValues, oob \in BOOLEAN :
           ProposeCall(current, value, oob)

EngineSpec == EngineInit /\ [][EngineNext]_vars

RunningSpec == RunningInit /\ [][EngineNext]_vars

\* ---------------------------------------------------------------------
\* Properties
\* ---------------------------------------------------------------------

\* The step from the current state to the next one is a call of Start.
StartCalled == calls'.start = calls.start + 1

\* The step from the current state to the next one is a call of Step that
\* returned.
StepReturned == calls'.step = calls.step + 1 /\ pc' = "running"

\* L_p - L_a of the call: the likelihood found at the proposed point minus
\* the accepted likelihood the call started with.
DeltaOfStep == Sub(mcmc'.fProposedLogLikelihood, mcmc.fAcceptedLogLikelihood)

\* After a Step that returned, the proposal holds the accepted likelihood
\* and the accepted point the Step started with.
DeltaOfLastStep ==
    Sub(mcmc.fProposedLogLikelihood, mcmc.fProposeStep.fLastValue)

\* C1: a Step that finds the proposed log likelihood not below the accepted
\* one (delta >= 0) returns true, makes the proposed point the accepted
\* one, and draws no uniform number.
AcceptAllImprovements ==
    [][(StepReturned /\ Ge(DeltaOfStep, Fin(0)))
         => /\ call'.ret = TRUE
            /\ mcmc'.fAccepted = mcmc'.fProposed
            /\ mcmc'.fAcceptedLogLikelihood = mcmc'.fProposedLogLikelihood
            /\ gRandom' = gRandom]_vars

ImprovementAccepted ==
    /\ call.op = "Step"
    /\ pc = "running"
    /\ Ge(DeltaOfLastStep, Fin(0))
    /\ call.ret = TRUE
    /\ gRandom.uniform = 0

\* C2: a Step with delta < 0 draws exactly one uniform number u and
\* returns true iff delta >= ln u; a draw of 0 (ln 0 = -inf) accepts.
MetropolisHastingsRule ==
    [][(StepReturned /\ Lt(DeltaOfStep, Fin(0)))
         => /\ gRandom'.uniform = gRandom.uniform + 1
            /\ call'.ret = Ge(DeltaOfStep, Log(gRandom'.last))
            /\ gRandom'.last = 0 => call'.ret = TRUE]_vars

WorseProposalAcceptedOnEqualTrial ==
    /\ call.op = "Step"
    /\ pc = "running"
    /\ DeltaOfLastStep = Fin(0 - 2)
    /\ gRandom.uniform = 1
    /\ Log(gRandom.last) = Fin(0 - 2)
    /\ call.ret = TRUE

\* C3: a Step that returns false leaves the accepted point and its log
\* likelihood as they were; a Step that returns true ends with the
\* accepted point equal to the proposed one and the accepted log
\* likelihood equal to the proposed one.
RejectionKeepsAcceptanceCopies ==
    [][StepReturned
         => /\ call'.ret = FALSE
                => /\ mcmc'.fAccepted = mcmc.fAccepted
                   /\ mcmc'.fAcceptedLogLikelihood = mcmc.fAcceptedLogLikelihood
            /\ call'.ret = TRUE
                => /\ mcmc'.fAccepted = mcmc'.fProposed
                   /\ mcmc'.fAcceptedLogLikelihood = mcmc'.fProposedLogLikelihood]_vars

RejectedAwayFromAccepted ==
    /\ call.op = "Step"
    /\ pc = "running"
    /\ call.ret = FALSE
    /\ mcmc.fProposed # mcmc.fAccepted
    /\ mcmc.fProposedLogLikelihood # mcmc.fAcceptedLogLikelihood

\* C4: a Step that finds -inf at the proposed point while the accepted log
\* likelihood is finite returns false and leaves the accepted point as it
\* was, whatever the uniform number drawn.
MinusInfinityAlwaysRejected ==
    [][(/\ StepReturned
        /\ mcmc'.fProposedLogLikelihood = NegInf
        /\ mcmc.fAcceptedLogLikelihood.k = "fin")
         => /\ call'.ret = FALSE
            /\ mcmc'.fAccepted = mcmc.fAccepted]_vars

\* C5: a Step that finds NaN at the proposed point returns false and
\* leaves the accepted point and its log likelihood as they were.
NaNRejected ==
    [][(StepReturned /\ mcmc'.fProposedLogLikelihood = NaN)
         => /\ call'.ret = FALSE
            /\ mcmc'.fAccepted = mcmc.fAccepted
            /\ mcmc'.fAcceptedLogLikelihood = mcmc.fAcceptedLogLikelihood]_vars

\* C6: the likelihood count equals the number of Start calls plus the
\* number of Step calls that passed the start-point check.
OneEvaluationPerCall ==
    mcmc.fLogLikelihoodCount =
        calls.start + calls.step - (IF pc = "terminated" THEN 1 ELSE 0)

CountedRejectedStep ==
    /\ call.op = "Step"
    /\ pc = "running"
    /\ call.ret = FALSE
    /\ calls.start = 1
    /\ mcmc.fLogLikelihoodCount = 2

\* C7: right after Start(x) the accepted and the proposed point are x and
\* both log likelihoods are the value the likelihood returned for x; a
\* Step leaves the lengths of the accepted and the proposed point alone.
StartSetsBothPoints ==
    [][/\ StartCalled
           => /\ mcmc'.fAccepted = call'.point
              /\ mcmc'.fProposed = call'.point
              /\ mcmc'.fAcceptedLogLikelihood = call'.value
              /\ mcmc'.fProposedLogLikelihood = call'.value
       /\ StepReturned
           => /\ Len(mcmc'.fAccepted) = Len(mcmc.fAccepted)
              /\ Len(mcmc'.fProposed) = Len(mcmc.fAccepted)]_vars

SteppedFromStartedPoint ==
    /\ call.op = "Step"
    /\ pc = "running"
    /\ calls.start = 1
    /\ Len(mcmc.fAccepted) = 2
    /\ Len(mcmc.fProposed) = 2
    /\ mcmc.fProposeStep.fLastPoint = <<0, 1>>

\* C8: with a tree, a Start or a Step with save adds exactly one entry,
\* whether the Step accepts or rejects; a call without save, or without a
\* tree, adds none.
OneEntryPerSavedCall ==
    [][(StartCalled \/ StepReturned)
         => mcmc'.fTree.entries =
                mcmc.fTree.entries
                    + (IF call'.save /\ mcmc.fTree.attached THEN 1 ELSE 0)]_vars

RejectedStepSaved ==
    /\ call.op = "Step"
    /\ pc = "running"
    /\ call.save = TRUE
    /\ call.ret = FALSE
    /\ mcmc.fTree.entries = 2

\* Everything of a sampler but its tree.
Chain(s) == [s EXCEPT !.fTree = NewTree(FALSE, FALSE)]

\* C9: a sampler without a tree, given the same calls, random numbers and
\* likelihood values, is in the same state as one with a tree and returns
\* the same results; it fills nothing.
SinkAbsenceUnobservable ==
    /\ Chain(twin) = Chain(mcmc)
    /\ call.twinRet = call.ret
    /\ twin.fTree.entries = 0

SavedWhileTwinSilent ==
    /\ call.op = "Step"
    /\ pc = "running"
    /\ call.ret = TRUE
    /\ mcmc.fTree.entries = 2
    /\ mcmc.fTrialStep = <<1, 1>>

\* C10: a Step called while the proposed or the accepted point is empty
\* (no Start yet, or a Start with an empty vector) terminates the sampler
\* without calling the proposal, without evaluating the likelihood and
\* without filling the tree.
StepWithoutStartIsFatal ==
    [][(/\ calls'.step = calls.step + 1
        /\ (Len(mcmc.fProposed) = 0 \/ Len(mcmc.fAccepted) = 0))
         => /\ pc' = "terminated"
            /\ mcmc'.fProposeStep = mcmc.fProposeStep
            /\ mcmc'.fLogLikelihoodCount = mcmc.fLogLikelihoodCount
            /\ mcmc'.fTree = mcmc.fTree]_vars

TerminatedAfterEmptyStart ==
    /\ pc = "terminated"
    /\ call.op = "Step"
    /\ calls.start = 1
    /\ mcmc.fLogLikelihoodCount = 1
    /\ mcmc.fProposeStep.fStateInitialized = FALSE


\* ---------------------------------------------------------------------
\* Properties of the proposal used on its own
\* ---------------------------------------------------------------------

\* The step from the current state to the next one is a call on the
\* proposal.
EngineCalled(op) == last'.made = last.made + 1 /\ last'.op = op

\* The dimensionality of the proposal.
Dimensionality == Len(engine.fLastPoint)

\* The step is a SetDim on a proposal that has a dimensionality, or a
\* SetUniform or SetGaussian with an index outside [0, d).
PreconditionViolated ==
    \/ EngineCalled("SetDim") /\ Dimensionality # 0
    \/ /\ EngineCalled("SetUniform") \/ EngineCalled("SetGaussian")
       /\ last'.dim < 0 \/ last'.dim >= Dimensionality

\* C11: a SetDim call on a proposal that already has a dimensionality, and
\* a SetGaussian or SetUniform call with an index outside [0, d), ends
\* the program instead of returning.
ConfigurationViolationsAreFatal ==
    [][PreconditionViolated => pc' = "terminated"]_vars


\* C12: an UpdateProposal call that finds the covariance without a
\* Cholesky decomposition returns all the same, whatever the types of
\* the dimensions: the failure is repaired inside the call.
CholeskyFailureNeverSurfaced ==
    [][(EngineCalled("UpdateProposal") /\ ~ Decompose(engine.fCurrentCov))
         => pc' = "running"]_vars

\* A matrix is symmetric; it is positive definite (Sylvester's criterion).
Symmetric(m) == \A i, j \in 1..Len(m) : m[i][j] = m[j][i]

PositiveDefinite(m) == \A n \in 1..Len(m) : Det(Leading(m, n)) > 0

\* C13: when an UpdateProposal call has returned (a ResetProposal call
\* ends with one), the covariance is symmetric and positive definite and
\* the decomposition is the Cholesky factor of the covariance as it is
\* then: U^T U = fCurrentCov.
DecompositionOfCurrentCovariance ==
    (last.op \in {"UpdateProposal", "ResetProposal"} /\ pc = "running")
        => /\ Symmetric(engine.fCurrentCov)
           /\ PositiveDefinite(engine.fCurrentCov)
           /\ TransposeTimes(engine.fDecomposition) = engine.fCurrentCov

\* The call found two fully correlated dimensions and returned with the
\* correlation reduced.
RepairedCovarianceDecomposed ==
    /\ last.op = "UpdateProposal"
    /\ pc = "running"
    /\ Len(engine.fCurrentCov) = 2
    /\ engine.fCurrentCov[1][2] # 0
    /\ engine.fCurrentCov[1][2] * engine.fCurrentCov[1][2]
           < engine.fCurrentCov[1][1] * engine.fCurrentCov[2][2]

\* The dimensions of the proposal made by the last call.
Proposed == 1..Len(last.proposal)

UniformTyped(i) == engine.fProposalType[i].type = 1

\* C14: in every proposal made, the element of a uniform dimension is a
\* uniform draw of its own between the bounds of the dimension, whatever
\* the current point; no Gaussian row adds a step to it, and its row adds
\* no step to any other element.
UniformOverride ==
    (last.op = "Propose" /\ pc = "running")
        => \A i \in Proposed :
               UniformTyped(i)
                   => /\ last.proposal[i].base.from = "uniform"
                      /\ last.proposal[i].base.minimum = engine.fProposalType[i].param1
                      /\ last.proposal[i].base.maximum = engine.fProposalType[i].param2
                      /\ \A k \in Proposed \ {i} :
                             UniformTyped(k)
                                 => last.proposal[k].base.draw # last.proposal[i].base.draw
                      /\ last.proposal[i].steps = {}
                      /\ \A j \in Proposed :
                             \A step \in last.proposal[j].steps : step.row # i

\* A proposal made with a uniform first dimension and a Gaussian second
\* one.
UniformBesideGaussianProposed ==
    /\ last.op = "Propose"
    /\ pc = "running"
    /\ Len(last.proposal) = 2
    /\ UniformTyped(1)
    /\ last.proposal[1].base.from = "uniform"
    /\ last.proposal[1].base.minimum = OnGrid(0 - 3)
    /\ ~ UniformTyped(2)
    /\ last.proposal[2].steps # {}

\* The Gaussian rows of the last proposal, and those up to row i.
GaussianRows == {i \in Proposed : ~ UniformTyped(i)}

GaussianRowsUpTo(i) == {k \in GaussianRows : k <= i}

\* The steps added to the elements of the Gaussian dimensions.
StepsAdded == UNION {last.proposal[j].steps : j \in GaussianRows}

\* C15 as stated: a call that makes a proposal with Gaussian dimensions
\* draws exactly one standard normal variate, and every step added to a
\* Gaussian element carries that one draw: the step of element j is
\* sigma * r * (sum over the Gaussian rows i of U[i,j]).
SingleSharedDraw ==
    (last.op = "Propose" /\ pc = "running" /\ GaussianRows # {})
        => /\ last.gaus = 1
           /\ \A j \in GaussianRows :
                  last.proposal[j].steps =
                      {[draw |-> 1, row |-> i] : i \in GaussianRows}

\* C15, amended: a call that makes a proposal draws one standard normal
\* variate r_i for each Gaussian row i, in the order of the rows, and
\* none for a uniform dimension; r_i is shared by the steps of row i:
\* the step of a Gaussian element j is
\* sigma * (sum over the Gaussian rows i of r_i * U[i,j]).
OneDrawPerGaussianRow ==
    (last.op = "Propose" /\ pc = "running")
        => /\ last.gaus = Cardinality(GaussianRows)
           /\ \A j \in GaussianRows :
                  last.proposal[j].steps =
                      {[draw |-> Cardinality(GaussianRowsUpTo(i)), row |-> i] :
                           i \in GaussianRows}

\* A proposal made over two Gaussian dimensions: two variates drawn, and
\* each element moved by both rows.
TwoGaussianRowsProposed ==
    /\ last.op = "Propose"
    /\ pc = "running"
    /\ GaussianRows = {1, 2}
    /\ last.gaus = 2
    /\ last.proposal[2].steps = {[draw |-> 1, row |-> 1], [draw |-> 2, row |-> 2]}

\* The width hint dimension i was last given (0 for none).
Hint(i) == IF i <= Len(last.hints) THEN last.hints[i] ELSE 0

RLe(a, b) == ~ RLt(b, a)

AcceptanceBounded ==
    /\ RLe(RInt(0), engine.fAcceptance)
    /\ RLe(engine.fAcceptance, RInt(1))
    /\ RLe(engine.fAcceptanceTrials, RInt(engine.fAcceptanceWindow))

Positive(x) == x = PosInf \/ (x.k = "fin" /\ x.v > 0)

SuccessesWithinTrials == engine.fSuccesses <= engine.fTrials

\* Two trials counted, one of them a move.
OneMoveInTwoTrials ==
    /\ pc = "running"
    /\ engine.fTrials = 2
    /\ engine.fSuccesses = 1

\* The step from the current state to the next one is a call that made a
\* proposal on an initialized proposal, and it returned.
StepLearnt ==
    EngineCalled("Propose") /\ engine.fStateInitialized /\ pc' = "running"

\* The call found the point where the last call left it: the trial is
\* counted and no success is.
StepRejected ==
    /\ engine'.fTrials = engine.fTrials + 1
    /\ engine'.fSuccesses = engine.fSuccesses

\* The call found a move that brings the counter below 1: UpdateProposal
\* is called with the counter set anew.
UpdateTriggered == ~ StepRejected /\ engine.fNextUpdate - 1 < 1

NextUpdateSetAnew ==
    engine'.fNextUpdate =
        engine.fAcceptanceWindow + ((engine.fSuccesses + 1) \div 2)

\* C20 as stated: every call decrements fNextUpdate by exactly 1, whether
\* or not it found a move; UpdateProposal is called on a move that finds
\* the counter below 1.
NextUpdateCountsEveryStep ==
    [][StepLearnt
         => IF UpdateTriggered THEN NextUpdateSetAnew
            ELSE engine'.fNextUpdate = engine.fNextUpdate - 1]_vars

\* C20, amended: a call that finds a move decrements fNextUpdate by
\* exactly 1, a call that finds none leaves it alone; UpdateProposal is
\* called on the move whose decrement brings the counter below 1, with
\* the counter set to the window plus half the successes.
NextUpdateCountsMoves ==
    [][StepLearnt
         => IF UpdateTriggered THEN NextUpdateSetAnew
            ELSE engine'.fNextUpdate =
                     IF StepRejected THEN engine.fNextUpdate
                     ELSE engine.fNextUpdate - 1]_vars

\* A rejected step one move before the update: the counter is still 1.
RejectedStepKeepsNextUpdate ==
    /\ last.op = "Propose"
    /\ pc = "running"
    /\ engine.fTrials = 6
    /\ engine.fSuccesses = 2
    /\ engine.fNextUpdate = 1

\* C21: an initialized proposal has fNextUpdate at 1 or above at the end
\* of every call that makes a proposal, whatever the steps were: a move
\* that would bring it below 1 sets it, in the same call, to the window
\* plus half the successes.
NextUpdateStaysPositive ==
    [][/\ (EngineCalled("Propose") /\ pc' = "running")
           => engine'.fNextUpdate >= 1
       /\ (StepLearnt /\ UpdateTriggered) => NextUpdateSetAnew]_vars

\* A move found with the counter at 1: the update has run and the
\* counter is the window plus half of the three successes.
NextUpdateSetAnewByMove ==
    /\ last.op = "Propose"
    /\ pc = "running"
    /\ engine.fTrials = 6
    /\ engine.fSuccesses = 3
    /\ engine.fNextUpdate = engine.fAcceptanceWindow + 1

\* The step from the current state to the next one is a call of
\* UpdateProposal or of ResetProposal on an initialized proposal, and it
\* returned.
Returned(op) ==
    EngineCalled(op) /\ engine.fStateInitialized /\ pc' = "running"

\* C22: when a ResetProposal call on an initialized proposal has
\* returned, the acceptance is the target acceptance and the acceptance
\* trials are min(10, window / 2).
ResetErasesAcceptanceHistory ==
    [][Returned("ResetProposal")
         => /\ engine'.fAcceptance = engine.fTargetAcceptance
            /\ engine'.fAcceptanceTrials =
                   RMin(RInt(10),
                        RMul(R(1, 2), RInt(engine.fAcceptanceWindow)))]_vars

\* C23: a call of UpdateProposal, or of ResetProposal with the
\* UpdateProposal that ends it, leaves the covariance trials and the
\* acceptance trials no larger than UpdateProposal found them.
DeweightingOnlyReduces ==
    [][/\ Returned("UpdateProposal")
           => /\ RLe(engine'.fCovarianceTrials, engine.fCovarianceTrials)
              /\ RLe(engine'.fAcceptanceTrials, engine.fAcceptanceTrials)
       /\ Returned("ResetProposal")
           => /\ RLe(engine'.fCovarianceTrials, engine.fCovarianceTrials)
              /\ RLe(engine'.fAcceptanceTrials,
                     RMin(RInt(10),
                          RMul(R(1, 2), RInt(engine.fAcceptanceWindow))))]_vars

\* The coordinates of the point the call was given, on the grid.
Given(i) == OnGrid(last'.current[i])

\* C24: a call that learns from a step updates the central value first,
\* m_i <- (m_i * trials + current_i) / (trials + 1), and then the
\* covariance, C_ij <- (C_ij * trials + r) / (trials + 1) with
\* r = (current_i - m_i)(current_j - m_j) taken around the central value
\* already updated, the entry above the diagonal being the one below it.
MeanUpdatedBeforeCovariance ==
    [][(/\ StepLearnt
        /\ ~ UpdateTriggered
        /\ Len(last'.current) = Dimensionality)
         => /\ \A i \in 1..Dimensionality :
                   engine'.fCentralPoint[i] =
                       Average(engine.fCentralPoint[i],
                               engine.fCentralPointTrials, Given(i), 1)
            /\ \A i, j \in 1..Dimensionality :
                   engine'.fCurrentCov[i][j] =
                       Average(engine.fCurrentCov[IF i < j THEN j ELSE i]
                                                 [IF i < j THEN i ELSE j],
                               engine.fCovarianceTrials,
                               (Given(i) - engine'.fCentralPoint[i])
                                   * (Given(j) - engine'.fCentralPoint[j]),
                               Unit)]_vars

\* A step to the origin with the central value 1.0 above it: the central
\* value has come one step of the grid nearer, and the variance, taken
\* around it, has gone one step below 1.0.
CovarianceAroundUpdatedMean ==
    /\ last.op = "Propose"
    /\ pc = "running"
    /\ engine.fTrials = 6
    /\ Dimensionality = 1
    /\ last.current = <<0>>
    /\ engine.fCentralPoint = <<OnGrid(1) - 1>>
    /\ engine.fCurrentCov = <<<<OnGrid(1) - 1>>>>

\* The expected variance of a dimension of type t: the hint of a Gaussian
\* dimension that has one, 1.0 for a Gaussian dimension without a hint,
\* (max - min)^2 / 12 for a uniform one.
ExpectedOfType(t) ==
    IF t.type = 1
    THEN (((t.param2 - t.param1) * (t.param2 - t.param1)) \div Unit) \div 12
    ELSE IF t.param1 > 0 THEN t.param1 ELSE OnGrid(1)

\* The step from the current state to the next one is an UpdateProposal
\* call whose first decomposition fails and which does not end in
\* ResetProposal.
RepairPass ==
    /\ EngineCalled("UpdateProposal")
    /\ ~ Decompose(engine.fCurrentCov)
    /\ engine'.fTrials = engine.fTrials

\* C25: the repair pass leaves every variance at sqrt(epsilon) times the
\* expected variance of its dimension or above; a pair of dimensions
\* whose correlation, taken with these variances, is 0.95 or above is
\* left with 0.95^2 * sqrt(C_ii * C_jj), and every other entry off the
\* diagonal, a strongly negative correlation included, is left alone.
RepairFloorsAndCeilings ==
    [][RepairPass
         => /\ \A i \in 1..Dimensionality :
                   engine'.fCurrentCov[i][i]
                       >= Minimum(ExpectedOfType(engine.fProposalType[i]))
            /\ \A i, j \in 1..Dimensionality :
                   i < j =>
                       /\ engine'.fCurrentCov[j][i] = engine'.fCurrentCov[i][j]
                       /\ engine'.fCurrentCov[i][j] =
                              IF SmallCorrelation(engine.fCurrentCov[i][j],
                                                  engine'.fCurrentCov[i][i],
                                                  engine'.fCurrentCov[j][j])
                              THEN engine.fCurrentCov[i][j]
                              ELSE ReducedCorrelation(engine'.fCurrentCov[i][i],
                                                      engine'.fCurrentCov[j][j])]_vars

\* C26: in every reachable state the covariance ResetProposal seeds has
\* a decomposition, so the UpdateProposal that ends a ResetProposal
\* returns from its first attempt, with the seeded covariance and
\* without another ResetProposal: an UpdateProposal call whose two
\* attempts fail ends after one ResetProposal.
ResetNestsOnce ==
    /\ Decompose(SeedCovariance(engine))
    /\ \E reset \in {ResetProposalOp(engine)} :
           /\ ~ reset.threw
           /\ reset.e.fCurrentCov = SeedCovariance(engine)
           /\ reset.e.fTrials = 0

\* An UpdateProposal call whose two attempts failed (the two dimensions
\* are fully anticorrelated, which the repair leaves alone): it has
\* returned with the seeded covariance and the counts of a reset.
UpdateEndedInReset ==
    /\ last.op = "UpdateProposal"
    /\ pc = "running"
    /\ Dimensionality = 2
    /\ engine.fTrials = 0
    /\ engine.fCurrentCov = SeedCovariance(engine)
    /\ TransposeTimes(engine.fDecomposition) = engine.fCurrentCov

\* A proposal call on a chain of one dimension that returned.
OneDimensionalPropose ==
    /\ EngineCalled("Propose")
    /\ pc' = "running"
    /\ Len(last'.current) = 1
    /\ Len(engine'.fLastPoint) = 1

\* C27 as stated: on a chain of one dimension every proposal call reads
\* element 1 of current and of the last point, outside both vectors.
OneDimensionReadsOutsideAlways ==
    [][OneDimensionalPropose => last'.read]_vars

\* C27: on a chain of one dimension the first proposal call reads element 1
\* outside both vectors, and a later proposal call that follows a proposal
\* call does so exactly when it is handed the log likelihood the call
\* before was handed; a different log likelihood settles the move test
\* before the elements are read.
OneDimensionReadsOutsideOnEqualValue ==
    [][OneDimensionalPropose =>
          /\ ~ engine.fStateInitialized => last'.read
          /\ (engine.fStateInitialized /\ last.op = "Propose")
                 => (last'.read <=> last'.value = last.value)]_vars

\* A second proposal call on a chain of one dimension was handed another
\* log likelihood, counted a move and read nothing outside the vectors.
OneDimensionMovedWithoutRead ==
    /\ last.op = "Propose"
    /\ pc = "running"
    /\ last.made = 2
    /\ Len(last.current) = 1
    /\ Len(engine.fLastPoint) = 1
    /\ engine.fTrials = 2
    /\ engine.fSuccesses = 1
    /\ ~ last.read

\* C28: a saved step that fills the tree records as trial step the
\* proposed point minus the point accepted before the call, element by
\* element, whether the proposed point is kept or rejected.
TrialStepFromAcceptedBefore ==
    [][(/\ StepReturned
        /\ call'.save
        /\ mcmc.fTree.attached
        /\ mcmc.fTree.saveStep)
          => /\ mcmc'.fTree.entries = mcmc.fTree.entries + 1
             /\ Len(mcmc'.fTree.last.Step) = Len(mcmc.fAccepted)
             /\ \A i \in 1..Len(mcmc.fAccepted) :
                    mcmc'.fTree.last.Step[i]
                        = mcmc'.fProposed[i] - mcmc.fAccepted[i]]_vars

\* A kept step was saved with a trial step that is not zero: the accepted
\* point is the proposed one by now.
KeptStepSavedWithTrialStep ==
    /\ call.op = "Step"
    /\ pc = "running"
    /\ call.save
    /\ call.ret
    /\ mcmc.fTree.attached
    /\ mcmc.fAccepted = mcmc.fProposed
    /\ \E i \in 1..Len(mcmc.fTree.last.Step) : mcmc.fTree.last.Step[i] # 0

\* C29: in a run of one Start followed by Steps whose log likelihoods are
\* never NaN, the proposal counts a success in a Step only if the call
\* before it was a Step that returned true; the first Step after Start
\* counts none.
SuccessOnlyAfterKeptStep ==
    [][(/\ StepReturned
        /\ calls.start = 1
        /\ mcmc.fAcceptedLogLikelihood # NaN
        /\ mcmc'.fProposeStep.fSuccesses > mcmc.fProposeStep.fSuccesses)
          => (call.op = "Step" /\ call.ret)]_vars

\* The step is a SetUniform or SetGaussian call with an index outside the
\* dimensions the proposal has, which are none before SetDim or the first
\* proposal.
SetterOutsideRange ==
    /\ EngineCalled("SetUniform") \/ EngineCalled("SetGaussian")
    /\ last'.dim < 0 \/ last'.dim >= Dimensionality

\* The call before was such a call for an index the proposal had no
\* dimension for, and the step is a proposal call that returns with a
\* dimension for it.
ProposedAfterDroppedOverride ==
    /\ last.op \in {"SetUniform", "SetGaussian"}
    /\ last.dim >= Dimensionality
    /\ EngineCalled("Propose")
    /\ pc' = "running"
    /\ last.dim < Len(last'.proposal)

=========================================================================
